---- MODULE Spec2Model ----
(***************************************************************************)
(* A state-machine model of onionshare/onion.py: the Onion class that      *)
(* connects to a Tor controller (bundled, automatic or manual settings),   *)
(* probes its capabilities, and creates / removes ephemeral onion services.*)
(*                                                                         *)
(* Time is counted in ticks of 200 ms, the argument of every time.sleep    *)
(* call of the module.  Strings that the code only stores or concatenates  *)
(* are TLA+ strings; strings the code splits are sequences of their parts; *)
(* the Tor version string, which the code compares, is a sequence of       *)
(* character codes.                                                        *)
(***************************************************************************)
EXTENDS Integers, Sequences, FiniteSets, TLC

(***************************************************************************)
(* Bounds of the model.                                                    *)
(***************************************************************************)
\* extra ticks that spawning, connecting and authenticating may take beyond the sleep
MaxSetupDelay == 1
\* number of onion services the control channel creates in one run
MaxServices == 3
\* signals delivered to the Tor process by cleanup() calls that then raised
MaxSignals == 2

(***************************************************************************)
(* Program constants.                                                      *)
(***************************************************************************)
\* time.sleep(0.2): one tick of 200 ms, five ticks to the second
SleepTicks == 1
TicksPerSecond == 5
\* "Timeout after 45 seconds"
TimeoutSeconds == 45
TimeoutTicks == TimeoutSeconds * TicksPerSecond
None == "None"
LOCALHOST == "127.0.0.1"

(***************************************************************************)
(* Control endpoints: Controller.from_port(address, port) and              *)
(* Controller.from_socket_file(path).                                      *)
(***************************************************************************)
PortEp(a, p) == [kind |-> "port", addr |-> a, port |-> p, path |-> ""]
SockEp(f) == [kind |-> "socket", addr |-> "", port |-> 0, path |-> f]
NoEp == [kind |-> "none", addr |-> "", port |-> 0, path |-> ""]

\* ports = [9151, 9153, 9051]
ports == <<9151, 9153, 9051>>
\* os.path.expanduser('~/Library/Application Support/TorBrowser-Data/Tor/control.socket')
DarwinSocketPath == "~/Library/Application Support/TorBrowser-Data/Tor/control.socket"
\* '/run/user/{}/Tor/control.socket'.format(os.geteuid())
RunUserSocketPath == "/run/user/1000/Tor/control.socket"

(***************************************************************************)
(* Inputs: the settings object, the platform and the environment.          *)
(***************************************************************************)
Systems == {"Linux", "Darwin", "Windows"}
ConnectionTypes == {"bundled", "automatic", "control_port", "socket_file", "bogus"}
AuthTypes == {"no_auth", "password", "bogus"}
\* values of os.environ.get('TOR_CONTROL_PORT'): unset, a number, not a number
EnvPorts == {"", "9251", "junk"}

\* the Settings objects: settings.get(key) is settings[key]
SettingsObjects(ctype) ==
    [connection_type : {ctype},
     auth_type : IF ctype \in {"bundled", "automatic"} THEN {"no_auth"} ELSE AuthTypes,
     control_port_address : {LOCALHOST},
     control_port_port : {9051},
     socket_file_path : {"/var/run/tor/control"},
     socks_address : IF ctype \in {"control_port", "socket_file"}
                     THEN {LOCALHOST, "10.0.0.5"} ELSE {LOCALHOST},
     socks_port : {9050}]

ManualPortEp(s) == PortEp(s.control_port_address, s.control_port_port)
ManualSockEp(s) == SockEp(s.socket_file_path)

\* int(env_port): defined on numeric strings only
IsNumeric(s) == s = "9251"
IntOf(s) == CASE s = "9251" -> 9251

(***************************************************************************)
(* Exceptions: the class raised and the endpoint its message is formatted  *)
(* with (NoEp when the message names none).                                *)
(***************************************************************************)
Exc(k) == [kind |-> k, ep |-> NoEp]
ExcAt(k, e) == [kind |-> k, ep |-> e]
NoError == Exc("none")

(***************************************************************************)
(* Calls issued on the control channel, in the order issued.               *)
(***************************************************************************)
NoPortMap == <<0, 0>>
CallRec(op, e, sid, pm, ba, aw, ok) ==
    [op |-> op, ep |-> e, sid |-> sid, port_map |-> pm, basic_auth |-> ba,
     await_publication |-> aw, ok |-> ok]
ConnectCall(e, ok) == CallRec("connect", e, None, NoPortMap, None, FALSE, ok)
AuthCall(e, ok) == CallRec("authenticate", e, None, NoPortMap, None, FALSE, ok)
VersionCall(e, ok) == CallRec("get_version", e, None, NoPortMap, None, FALSE, ok)
CreateCall(e, sid, pm, ba, aw, ok) == CallRec("create", e, sid, pm, ba, aw, ok)
RemoveCall(e, sid, ok) == CallRec("remove", e, sid, NoPortMap, None, FALSE, ok)

\* an operation of the manager and its port argument (0 when it takes none)
Op(name, port) == [name |-> name, port |-> port]

\* an (address, port) tuple; NoSocks before get_tor_socks_port returned one
Socks(a, p) == [addr |-> a, port |-> p]
NoSocks == Socks("", 0)

VARIABLES
    settings,           \* the Settings object
    stealth,            \* constructor argument
    host,               \* [system, dev_mode, env_port]
    bundled_tor_func,   \* TRUE iff the constructor got a callable progress sink
    reachable,          \* endpoints of this host on which a Tor controller listens
    authable,           \* reachable endpoints that accept authenticate()
    pc,                 \* position of the constructor / state of the manager
    op,                 \* the operation in progress or just finished, and its argument
    err,                \* exception that reached the caller of the last operation
    c,                  \* self.c: endpoint of the controller held, or NoEp
    conns,              \* endpoints of the controller connections opened so far
    calls,              \* control channel calls of the operation in progress or
                        \* just finished (bootstrap polls are counted in n_polls)
    tor_proc,           \* self.tor_proc: None or "proc"
    signals,            \* signals sent to the Tor child process, in order
    returncode,         \* what tor_proc.poll() last returned (None before any poll)
    tor_control_port,   \* self.tor_control_port (0 for None or not set)
    tor_socks_port,     \* self.tor_socks_port (0 for not set)
    \* the bundled branch of __init__, until __init__ returns
    elapsed,            \* time.time() - start_ts, in ticks
    first_poll,         \* elapsed at the first bootstrap poll
    progress,           \* the local progress of the while loop
    summary,            \* the local summary of the while loop
    status_string,      \* the local status_string of the while loop
    n_polls,            \* number of get_info("status/bootstrap-phase") calls
    n_sunk,             \* number of bundled_tor_func calls
    tor_version,        \* self.tor_version (<<>> before it is set)
    has_list_ephemeral, \* the controller object has list_ephemeral_hidden_services
    supports_ephemeral, \* self.supports_ephemeral
    supports_stealth,   \* self.supports_stealth
    service_id,         \* self.service_id
    auth_string,        \* self.auth_string
    live,               \* ids of the onion services live on the control channel
    n_created,          \* number of onion services the channel has created
    result,             \* value start() returned, if it is the last operation
    started,            \* ids of the onion services start() created
    unremoved,          \* ids whose remove call in cleanup() raised
    socks               \* value get_tor_socks_port() returned, if it is the last
                        \* operation

inputs == <<settings, stealth, host, bundled_tor_func, reachable, authable>>
proc == <<tor_proc, signals, returncode, tor_control_port, tor_socks_port>>
loop == <<progress, summary, status_string, n_polls, n_sunk>>
boot == <<elapsed, first_poll, loop>>
caps == <<tor_version, has_list_ephemeral, supports_ephemeral, supports_stealth>>
svc == <<service_id, auth_string, live, n_created, result, started, unremoved, socks>>

vars == <<inputs, pc, op, err, c, conns, calls, proc, boot, caps, svc>>

(***************************************************************************)
(* Initial states: the manager is about to be constructed.  Each branch of *)
(* __init__ reads only some of the inputs; the inputs a branch never reads *)
(* are held at one value.                                                  *)
(***************************************************************************)
\* endpoints on which a controller may be listening when the constructor runs:
\* those the connection type can name (the empty socket path is never bound)
Listening(s, sys, env) ==
    CASE s.connection_type = "automatic" ->
           (IF env = "" THEN {PortEp(LOCALHOST, ports[i]) : i \in 1..Len(ports)}
            ELSE IF IsNumeric(env) THEN {PortEp(LOCALHOST, IntOf(env))} ELSE {})
           \cup (IF sys = "Darwin" /\ env = "" THEN {SockEp(DarwinSocketPath)} ELSE {})
           \cup (IF sys # "Windows" THEN {SockEp(RunUserSocketPath)} ELSE {})
      [] s.connection_type = "control_port" -> {ManualPortEp(s)}
      [] s.connection_type = "socket_file" -> {ManualSockEp(s)}
      [] OTHER -> {}

\* platform.system(), sys.onionshare_dev_mode (read on Windows and Darwin only,
\* in the bundled branch) and os.environ.get('TOR_CONTROL_PORT')
Hosts(ctype) ==
    {h \in [system : IF ctype \in {"bundled", "automatic"} THEN Systems ELSE {"Linux"},
            dev_mode : BOOLEAN,
            env_port : IF ctype = "automatic" THEN EnvPorts ELSE {""}] :
        h.dev_mode => (ctype = "bundled" /\ h.system # "Linux")}

Init ==
    /\ \E ctype \in ConnectionTypes :
         /\ settings \in SettingsObjects(ctype)
         /\ host \in Hosts(ctype)
         /\ bundled_tor_func \in (IF ctype = "bundled" THEN BOOLEAN ELSE {FALSE})
         /\ reachable \in SUBSET Listening(settings, host.system, host.env_port)
         /\ authable \in SUBSET reachable
    /\ stealth \in BOOLEAN
    /\ pc = "init"
    /\ op = Op("__init__", 0)
    /\ err = NoError
    /\ c = NoEp                 \* self.c = None
    /\ conns = {}
    /\ calls = <<>>
    /\ tor_proc = None          \* self.tor_proc = None
    /\ signals = <<>>
    /\ returncode = "None"
    /\ tor_control_port = 0
    /\ tor_socks_port = 0
    /\ elapsed = 0
    /\ first_poll = 0
    /\ progress = None
    /\ summary = None
    /\ status_string = None
    /\ n_polls = 0
    /\ n_sunk = 0
    /\ tor_version = <<>>
    /\ has_list_ephemeral = FALSE
    /\ supports_ephemeral = FALSE
    /\ supports_stealth = FALSE
    /\ service_id = None        \* self.service_id = None
    /\ auth_string = None
    /\ live = {}
    /\ n_created = 0
    /\ result = None
    /\ started = {}
    /\ unremoved = {}
    /\ socks = NoSocks

(***************************************************************************)
(* Automatic connection type: lines 222-281.                               *)
(***************************************************************************)
\* the state of the discovery: self.c, found_tor, the connects tried, the
\* connections opened
Discovery0 == [c |-> NoEp, found_tor |-> FALSE, attempts |-> <<>>, opened |-> {}]

\* self.c = Controller.from_...(e); found_tor = True   -- or the exception
Attempt(st, e, reach) ==
    IF e \in reach
    THEN [c |-> e, found_tor |-> TRUE, attempts |-> Append(st.attempts, e),
          opened |-> st.opened \cup {e}]
    ELSE [st EXCEPT !.attempts = Append(@, e)]

\* try: for port in ports: self.c = Controller.from_port(port=port); found_tor = True
\* except: pass          -- the first exception leaves the loop
RECURSIVE PortLoop(_, _, _)
PortLoop(st, i, reach) ==
    IF i > Len(ports) THEN st
    ELSE LET e == PortEp(LOCALHOST, ports[i])
         IN IF e \in reach THEN PortLoop(Attempt(st, e, reach), i + 1, reach)
            ELSE Attempt(st, e, reach)

\* if env_port: try: self.c = Controller.from_port(port=int(env_port)) ...
EnvBranch(env, reach) ==
    IF IsNumeric(env) THEN Attempt(Discovery0, PortEp(LOCALHOST, IntOf(env)), reach)
    ELSE Discovery0

\* else: the default ports, then socket_file_path = '' (Darwin: the Tor Browser path)
DefaultBranch(sys, reach) ==
    LET a == PortLoop(Discovery0, 1, reach)
        socket_file_path == IF sys = "Darwin" THEN DarwinSocketPath ELSE ""
    IN IF ~a.found_tor THEN Attempt(a, SockEp(socket_file_path), reach) ELSE a

\* if not found_tor: guess the socket file of the platform, or raise
\* TorErrorAutomatic; the result says whether the exception left __init__
Fallback(st, sys, reach) ==
    IF st.found_tor THEN [st |-> st, raised |-> FALSE]
    ELSE IF sys = "Windows" THEN [st |-> st, raised |-> TRUE]
    ELSE LET b == Attempt(st, SockEp(RunUserSocketPath), reach)
         IN [st |-> b, raised |-> ~b.found_tor]

Discover(sys, env, reach) ==
    Fallback(IF env # "" THEN EnvBranch(env, reach) ELSE DefaultBranch(sys, reach),
             sys, reach)

ConnectCalls(attempts, reach) ==
    [i \in 1..Len(attempts) |-> ConnectCall(attempts[i], attempts[i] \in reach)]

AutomaticConnect ==
    /\ pc = "init"
    /\ settings.connection_type = "automatic"
    /\ LET d == Discover(host.system, host.env_port, reachable)
           ok == d.st.c \in authable
       IN /\ c' = d.st.c
          /\ conns' = d.st.opened
          /\ IF d.raised
             THEN /\ calls' = ConnectCalls(d.st.attempts, reachable)
                  /\ pc' = "failed"
                  /\ err' = Exc("TorErrorAutomatic")
             ELSE \* try: self.c.authenticate() except: raise TorErrorAutomatic
                  /\ calls' = Append(ConnectCalls(d.st.attempts, reachable),
                                     AuthCall(d.st.c, ok))
                  /\ pc' = IF ok THEN "connected" ELSE "failed"
                  /\ err' = IF ok THEN NoError ELSE Exc("TorErrorAutomatic")
    /\ UNCHANGED <<inputs, op, proc, boot, caps, svc>>

(***************************************************************************)
(* Manual connection types: lines 283-316.                                 *)
(***************************************************************************)
\* the endpoint the try block connects to; NoEp when it raises
\* TorErrorInvalidSetting instead
ManualTarget(s) ==
    CASE s.connection_type = "control_port" -> ManualPortEp(s)
      [] s.connection_type = "socket_file" -> ManualSockEp(s)
      [] OTHER -> NoEp

\* variant: the two transport errors exchanged
ManualConnectError_swapped(s) ==
    IF s.connection_type = "control_port" THEN ExcAt("TorErrorSocketFile", ManualSockEp(s))
    ELSE ExcAt("TorErrorSocketPort", ManualPortEp(s))

\* except: the bare handler of the connect block
ManualConnectError(s) ==
    IF s.connection_type = "control_port" THEN ExcAt("TorErrorSocketPort", ManualPortEp(s))
    ELSE ExcAt("TorErrorSocketFile", ManualSockEp(s))

\* what stem's authenticate raises when it fails
AuthFailures == {"MissingPassword", "UnreadableCookieFile", "AuthenticationFailure"}

\* the except clauses of the authenticate block
ManualAuthError(s, failure) ==
    CASE failure = "MissingPassword" -> Exc("TorErrorMissingPassword")
      [] failure = "UnreadableCookieFile" -> Exc("TorErrorUnreadableCookieFile")
      [] failure = "AuthenticationFailure" -> ExcAt("TorErrorAuthError", ManualPortEp(s))

ManualConnect ==
    /\ pc = "init"
    /\ settings.connection_type \notin {"bundled", "automatic"}
    /\ LET e == ManualTarget(settings)
       IN IF e = NoEp \/ e \notin reachable
          THEN /\ calls' = IF e = NoEp THEN <<>> ELSE <<ConnectCall(e, FALSE)>>
               /\ pc' = "failed"
               /\ err' = ManualConnectError(settings)
               /\ UNCHANGED <<c, conns>>
          ELSE /\ c' = e
               /\ conns' = {e}
               /\ IF settings.auth_type \notin {"no_auth", "password"}
                  THEN /\ calls' = <<ConnectCall(e, TRUE)>>
                       /\ pc' = "failed"
                       /\ err' = Exc("TorErrorInvalidSetting")
                  ELSE IF e \in authable
                  THEN /\ calls' = <<ConnectCall(e, TRUE), AuthCall(e, TRUE)>>
                       /\ pc' = "connected"
                       /\ err' = NoError
                  ELSE \E failure \in AuthFailures :
                       /\ calls' = <<ConnectCall(e, TRUE), AuthCall(e, FALSE)>>
                       /\ pc' = "failed"
                       /\ err' = ManualAuthError(settings, failure)
    /\ UNCHANGED <<inputs, op, proc, boot, caps, svc>>

(***************************************************************************)
(* Bundled connection type: lines 144-220.                                 *)
(***************************************************************************)
\* bundle_tor_supported
BundleTorSupported(h) ==
    ~((h.system = "Windows" \/ h.system = "Darwin") /\ h.dev_mode)

\* _get_available_port: a port random.randint(1000, 65535) drew and bind accepted;
\* the probing socket is closed before the port is returned
AvailablePorts == {1000, 65535}
get_available_port == AvailablePorts

\* os.path.join(self.tor_data_directory.name, 'control_socket')
tor_control_socket == "/tmp/tmpdir/control_socket"

\* the endpoint of the bundled controller
BundledEp(sys, cport) ==
    IF sys = "Windows" THEN PortEp(LOCALHOST, cport) ELSE SockEp(tor_control_socket)

\* lines 145-185: the torrc, the ports and the tor subprocess
BundledSpawn ==
    /\ pc = "init"
    /\ settings.connection_type = "bundled"
    /\ \/ /\ ~BundleTorSupported(host)
          /\ pc' = "failed"
          /\ err' = Exc("BundledTorNotSupported")
          /\ UNCHANGED proc
       \/ /\ BundleTorSupported(host)
          /\ \E cport \in get_available_port, sport \in get_available_port :
               /\ tor_control_port' = IF host.system = "Windows" THEN cport ELSE 0
               /\ tor_socks_port' = sport
          /\ \/ \* subprocess.Popen started tor
                /\ tor_proc' = "proc"
                /\ pc' = "spawned"
                /\ err' = NoError
             \/ \* subprocess.Popen raised
                /\ tor_proc' = None
                /\ pc' = "failed"
                /\ err' = Exc("OSError")
          /\ UNCHANGED <<signals, returncode>>
    /\ UNCHANGED <<inputs, op, c, conns, calls, boot, caps, svc>>

\* lines 187-196: time.sleep(0.2), then connect and authenticate; an exception of
\* either call leaves __init__ as it is
BundledConnect ==
    /\ pc = "spawned"
    /\ \E d \in 0..MaxSetupDelay :
         /\ elapsed' = SleepTicks + d
         /\ first_poll' = elapsed'
    /\ LET e == BundledEp(host.system, tor_control_port)
       IN \/ /\ calls' = <<ConnectCall(e, FALSE)>>
             /\ pc' = "failed"
             /\ err' = Exc("SocketError")
             /\ UNCHANGED <<c, conns>>
          \/ /\ calls' = <<ConnectCall(e, TRUE), AuthCall(e, FALSE)>>
             /\ c' = e
             /\ conns' = {e}
             /\ pc' = "failed"
             /\ err' = Exc("AuthenticationFailure")
          \/ /\ calls' = <<ConnectCall(e, TRUE), AuthCall(e, TRUE)>>
             /\ c' = e
             /\ conns' = {e}
             /\ pc' = "bootstrap"
             /\ err' = NoError
    /\ UNCHANGED <<inputs, op, proc, loop, caps, svc>>

\* shlex.split of a reply of get_info("status/bootstrap-phase"): the tokens, each
\* with its split('=') parts
Reply(prog, summ) ==
    << <<"NOTICE">>, <<"BOOTSTRAP">>, <<"PROGRESS", prog>>, <<"TAG", "tag">>,
       <<"SUMMARY", summ>> >>
Replies ==
    {Reply("0", "Starting"), Reply("50", "Loading"), Reply("100", "Done"),
     << <<"NOTICE">>, <<"BOOTSTRAP">> >>}

\* res_parts[2].split('=')[1] and res_parts[4].split('=')[1] raise IndexError
\* unless the parts exist
Parses(res_parts) ==
    /\ Len(res_parts) >= 5
    /\ Len(res_parts[3]) >= 2
    /\ Len(res_parts[5]) >= 2
Progress(res_parts) == res_parts[3][2]
Summary(res_parts) == res_parts[5][2]

\* "{}% - {}".format(progress, summary)
StatusString(prog, summ) == prog \o "% - " \o summ

\* variant: >= for >
TimedOut_inclusive(t) == t >= TimeoutTicks

\* time.time() - start_ts > 45
TimedOut(t) == t > TimeoutTicks

\* variant: the summary compared with another spelling
IsDone_lowercase(summ) == summ = "done"

\* if summary == 'Done': break
IsDone(summ) == summ = "Done"

\* variant: the signal is not sent
Signal_dropped(sigs, sig) == sigs

\* self.tor_proc.terminate(), self.tor_proc.kill()
Signal(sigs, sig) == Append(sigs, sig)

\* one pass of the while loop, lines 198-220
BootstrapPoll ==
    /\ pc = "bootstrap"
    /\ n_polls' = n_polls + 1
    /\ \/ \* get_info raises
          /\ pc' = "failed"
          /\ err' = Exc("ControllerError")
          /\ UNCHANGED <<elapsed, progress, summary, status_string, n_sunk, signals>>
       \/ \E res_parts \in Replies :
            IF ~Parses(res_parts)
            THEN /\ pc' = "failed"
                 /\ err' = Exc("IndexError")
                 /\ UNCHANGED <<elapsed, progress, summary, status_string, n_sunk,
                                signals>>
            ELSE    /\ progress' = Progress(res_parts)
                    /\ summary' = Summary(res_parts)
                    /\ IF bundled_tor_func
                       THEN /\ status_string' = StatusString(progress', summary')
                            /\ n_sunk' = n_sunk + 1
                       ELSE UNCHANGED <<status_string, n_sunk>>
                    /\ \/ \* bundled_tor_func raises
                          /\ bundled_tor_func
                          /\ pc' = "failed"
                          /\ err' = Exc("SinkError")
                          /\ UNCHANGED <<elapsed, signals>>
                       \/ \* if summary == 'Done': break
                          /\ IsDone(summary')
                          /\ pc' = "connected"
                          /\ err' = NoError
                          /\ UNCHANGED <<elapsed, signals>>
                       \/ \* time.sleep(0.2), then the timeout test
                          /\ ~IsDone(summary')
                          /\ elapsed' = elapsed + SleepTicks
                          /\ IF TimedOut(elapsed')
                             THEN /\ signals' = Signal(signals, "terminate")
                                  /\ pc' = "failed"
                                  /\ err' = Exc("BundledTorTimeout")
                             ELSE /\ pc' = "bootstrap"
                                  /\ err' = NoError
                                  /\ UNCHANGED signals
    /\ UNCHANGED <<inputs, op, c, conns, calls, tor_proc, returncode, tor_control_port,
                   tor_socks_port, first_poll, caps, svc>>

(***************************************************************************)
(* Version and capabilities: lines 318-333.                                *)
(***************************************************************************)
\* the decimal digits of n, as character codes
RECURSIVE Digits(_)
Digits(n) == IF n < 10 THEN <<48 + n>> ELSE Digits(n \div 10) \o <<48 + (n % 10)>>

\* version_str of a Tor version a.b.c.d: the numbers joined with '.'
RECURSIVE VersionStr(_)
VersionStr(v) ==
    IF Len(v) = 1 THEN Digits(v[1])
    ELSE Digits(v[1]) \o <<46>> \o VersionStr(Tail(v))

\* the versions the controller may report
TorVersions == {<<0, 2, 6, 10>>, <<0, 2, 7, 1>>, <<0, 3, 0, 6>>}

\* a >= b on Python strings
RECURSIVE StrGE(_, _)
StrGE(a, b) ==
    IF b = <<>> THEN TRUE
    ELSE IF a = <<>> THEN FALSE
    ELSE IF a[1] # b[1] THEN a[1] > b[1]
    ELSE StrGE(Tail(a), Tail(b))

\* variant: the version test alone
SupportsEphemeral_versionOnly(has_list, version) ==
    StrGE(version, VersionStr(<<0, 2, 7, 1>>))

\* callable(list_ephemeral_hidden_services) and self.tor_version >= '0.2.7.1'
SupportsEphemeral(has_list, version) ==
    has_list /\ StrGE(version, VersionStr(<<0, 2, 7, 1>>))

\* the service ids the control channel hands out, a fresh one per service
ServiceIds == <<"aaaa", "bbbb", "cccc", "dddd", "eeee", "ffff">>

\* res.content() of a successful create_ephemeral_hidden_service: lines of
\* (code, divider, text), the text with its split('=') parts; the client auth
\* value with its split(':') parts
Content(sid, basic_auth) ==
    << <<"250", "-", <<"ServiceID", sid>> >>,
       <<"250", "-", <<"PrivateKey", "key">> >> >>
    \o (IF basic_auth # None
        THEN << <<"250", "-", <<"ClientAuth", <<"onionshare", "cookie">> >> >> >>
        ELSE << >>)
    \o << <<"250", " ", <<"OK">> >> >>

\* variant: the key of the ServiceID line in place of its value
ServiceIdOf_key(content) == content[1][3][1]

\* res.content()[0][2].split('=')[1]
ServiceIdOf(content) == content[1][3][2]

\* lines 318-333; the constructor returns, or get_version raises
CapabilityProbe ==
    /\ pc = "connected"
    /\ \/ /\ calls' = Append(calls, VersionCall(c, FALSE))
          /\ pc' = "failed"
          /\ err' = Exc("ControllerError")
          /\ UNCHANGED <<caps, live, n_created, bundled_tor_func, reachable, authable>>
       \/ \E v \in TorVersions, has_list \in BOOLEAN :
            /\ tor_version' = VersionStr(v)
            /\ has_list_ephemeral' = has_list
            /\ supports_ephemeral' = SupportsEphemeral(has_list, VersionStr(v))
            /\ pc' = "ready"
            /\ err' = NoError
            \* no operation of the manager reads the progress sink or the
            \* listeners of the host once __init__ has returned: the sink goes
            \* with the arguments, of the listeners those connected to are kept
            /\ bundled_tor_func' = FALSE
            /\ reachable' = conns
            /\ authable' = {c}
            /\ \/ \* create_ephemeral_hidden_service raises
                  /\ calls' = calls \o <<VersionCall(c, TRUE),
                                CreateCall(c, None, <<1, 1>>, "onionshare", FALSE, FALSE)>>
                  /\ supports_stealth' = FALSE
                  /\ UNCHANGED <<live, n_created>>
               \/ \* the service is created; remove_ephemeral_hidden_service
                  \* removes it or raises
                  /\ has_list
                  /\ n_created < MaxServices
                  /\ n_created' = n_created + 1
                  /\ LET sid == ServiceIds[n_created + 1]
                         tmp_service_id == ServiceIdOf(Content(sid, "onionshare"))
                     IN \E removed \in BOOLEAN :
                          /\ calls' = calls \o <<VersionCall(c, TRUE),
                                CreateCall(c, sid, <<1, 1>>, "onionshare", FALSE, TRUE),
                                RemoveCall(c, tmp_service_id, removed)>>
                          /\ live' = IF removed THEN (live \cup {sid}) \ {tmp_service_id}
                                     ELSE live \cup {sid}
                          /\ supports_stealth' = removed
    \* the locals of __init__ and the history of its bundled branch end here
    /\ elapsed' = 0
    /\ first_poll' = 0
    /\ progress' = None
    /\ summary' = None
    /\ status_string' = None
    /\ n_polls' = 0
    /\ n_sunk' = 0
    /\ UNCHANGED <<settings, stealth, host, op, c, conns, proc, service_id,
                   auth_string, result, started, unremoved, socks>>

(***************************************************************************)
(* start: lines 335-371.                                                   *)
(***************************************************************************)
\* the ports start() is called with
LocalPorts == {8080, 8081}

\* basic_auth = {'onionshare': None} if self.stealth else None
BasicAuth(st) == IF st THEN "onionshare" ELSE None

\* variant: key and value exchanged
PortMap_swapped(port) == <<port, 80>>

\* { 80: port }
PortMap(port) == <<80, port>>

\* onion_host = self.service_id + '.onion'
OnionHost(sid) == sid \o ".onion"

\* res.content()[2][2].split('=')[1].split(':')[1]
AuthCookieOf(content) == content[3][3][2][2]

\* 'HidServAuth {} {}'.format(onion_host, auth_cookie)
AuthString(onion_host, auth_cookie) == "HidServAuth " \o onion_host \o " " \o auth_cookie

\* the exceptions create_ephemeral_hidden_service raises in start, as they
\* reach the caller: only ProtocolError is converted
CreateFailures == {"ProtocolError", "ControllerError"}
StartError(failure) ==
    IF failure = "ProtocolError" THEN Exc("TorErrorProtocolError") ELSE Exc(failure)

\* variant: the stealth test left out
TooOld_ephemeralOnly(ephemeral, st, stealth_ok) == ~ephemeral

\* if not self.supports_ephemeral: raise TorTooOld
\* if self.stealth and not self.supports_stealth: raise TorTooOld
TooOld(ephemeral, st, stealth_ok) == ~ephemeral \/ (st /\ ~stealth_ok)

Start(port) ==
    /\ pc = "ready"
    /\ op' = Op("start", port)
    /\ \/ \* the capability tests
          /\ TooOld(supports_ephemeral, stealth, supports_stealth)
          /\ auth_string' = None
          /\ calls' = <<>>
          /\ err' = Exc("TorTooOld")
          /\ result' = None
          /\ UNCHANGED <<service_id, live, n_created, started>>
       \/ \* create_ephemeral_hidden_service raises
          /\ ~TooOld(supports_ephemeral, stealth, supports_stealth)
          /\ \E failure \in CreateFailures :
               err' = StartError(failure)
          /\ auth_string' = None
          /\ calls' = <<CreateCall(c, None, PortMap(port), BasicAuth(stealth), TRUE, FALSE)>>
          /\ result' = None
          /\ UNCHANGED <<service_id, live, n_created, started>>
       \/ \* the service is created and published
          /\ ~TooOld(supports_ephemeral, stealth, supports_stealth)
          /\ n_created < MaxServices
          /\ LET sid == ServiceIds[n_created + 1]
                 content == Content(sid, BasicAuth(stealth))
                 onion_host == OnionHost(ServiceIdOf(content))
             IN /\ calls' = <<CreateCall(c, sid, PortMap(port), BasicAuth(stealth), TRUE, TRUE)>>
                /\ n_created' = n_created + 1
                /\ live' = live \cup {sid}
                /\ started' = started \cup {sid}
                /\ service_id' = ServiceIdOf(content)
                /\ auth_string' = IF stealth THEN AuthString(onion_host, AuthCookieOf(content))
                                  ELSE None
                /\ result' = onion_host
                /\ err' = NoError
    /\ socks' = NoSocks
    /\ UNCHANGED <<inputs, pc, c, conns, proc, boot, caps, unremoved>>

(***************************************************************************)
(* cleanup: lines 373-391.                                                 *)
(***************************************************************************)
\* what tor_proc.poll() returns after the grace sleep: None while the process
\* runs, else its exit status
PollResults == {"None", "0", "1"}

\* not self.tor_proc.poll()
NotPoll(rc) == rc = "None" \/ rc = "0"

\* variant: the handle tests always pass
Truthy_always(x) == TRUE

\* if self.service_id:  /  if self.tor_proc:
Truthy(x) == x # None

\* variant: the remove call has no effect on the channel
Removed_none(lv, sid) == lv

\* the services live on the channel after a remove_ephemeral_hidden_service(sid)
\* that returned
Removed(lv, sid) == lv \ {sid}

\* the exception of a terminate() or kill() that raises; it is not caught
SignalError == Exc("OSError")

Cleanup ==
    /\ pc = "ready"
    /\ op' = Op("cleanup", 0)
    /\ IF Truthy(service_id)
       THEN \E removed \in BOOLEAN :
              /\ calls' = <<RemoveCall(c, service_id, removed)>>
              /\ live' = IF removed THEN Removed(live, service_id) ELSE live
              /\ unremoved' = IF removed THEN unremoved ELSE unremoved \cup {service_id}
              /\ service_id' = None
       ELSE /\ calls' = <<>>
            /\ UNCHANGED <<live, unremoved, service_id>>
    /\ IF Truthy(tor_proc)
       THEN \/ \* terminate() raises
               /\ err' = SignalError
               /\ UNCHANGED <<tor_proc, signals, returncode>>
            \/ \* terminate(), time.sleep(0.2), poll()
               \E rc \in PollResults :
                 /\ returncode' = rc
                 /\ IF NotPoll(rc)
                    THEN \/ \* kill() raises
                            /\ Len(signals) < MaxSignals
                            /\ signals' = Signal(signals, "terminate")
                            /\ err' = SignalError
                            /\ UNCHANGED tor_proc
                         \/ /\ signals' = Signal(Signal(signals, "terminate"), "kill")
                            /\ err' = NoError
                            /\ tor_proc' = None
                    ELSE /\ signals' = Signal(signals, "terminate")
                         /\ err' = NoError
                         /\ tor_proc' = None
       ELSE /\ err' = NoError
            /\ UNCHANGED <<tor_proc, signals, returncode>>
    /\ result' = None
    /\ socks' = NoSocks
    /\ UNCHANGED <<inputs, pc, c, conns, tor_control_port, tor_socks_port, boot, caps,
                   auth_string, n_created, started>>

(***************************************************************************)
(* get_tor_socks_port: lines 393-402.                                      *)
(***************************************************************************)
\* the SOCKS port of Tor Browser
AutomaticSocksPort == 9150

\* variant: the loopback address in every connection type
GetTorSocksPort_loopback(s, sport) ==
    IF s.connection_type = "bundled" THEN Socks(LOCALHOST, sport)
    ELSE IF s.connection_type = "automatic" THEN Socks(LOCALHOST, AutomaticSocksPort)
    ELSE Socks(LOCALHOST, s.socks_port)

GetTorSocksPort(s, sport) ==
    IF s.connection_type = "bundled" THEN Socks(LOCALHOST, sport)
    ELSE IF s.connection_type = "automatic" THEN Socks(LOCALHOST, AutomaticSocksPort)
    ELSE Socks(s.socks_address, s.socks_port)

get_tor_socks_port ==
    /\ pc = "ready"
    /\ op' = Op("get_tor_socks_port", 0)
    /\ err' = NoError
    /\ calls' = <<>>
    /\ socks' = GetTorSocksPort(settings, tor_socks_port)
    /\ result' = None
    /\ UNCHANGED <<inputs, pc, c, conns, proc, boot, caps, service_id, auth_string,
                   live, n_created, started, unremoved>>

Next ==
    \/ AutomaticConnect
    \/ ManualConnect
    \/ BundledSpawn
    \/ BundledConnect
    \/ BootstrapPoll
    \/ CapabilityProbe
    \/ \E port \in LocalPorts : Start(port)
    \/ Cleanup
    \/ get_tor_socks_port

Spec == Init /\ [][Next]_vars

\* The constructor with the bundled connection type.  __init__ is sequential
\* code: once in the while loop it takes the next pass, so the loop step is
\* weakly fair.
InitBundled == Init /\ settings.connection_type = "bundled"
NextBundled ==
    \/ BundledSpawn
    \/ BundledConnect
    \/ BootstrapPoll
    \/ CapabilityProbe
FairBundled == InitBundled /\ [][NextBundled]_vars /\ WF_vars(BootstrapPoll)

(***************************************************************************)
(* Properties.                                                             *)
(***************************************************************************)
Bundled == settings.connection_type = "bundled"
Automatic == settings.connection_type = "automatic"
Manual == settings.connection_type \in {"control_port", "socket_file"}

IsConnect(k) == k.op = "connect"
IsPortConnect(k) == k.op = "connect" /\ k.ep.kind = "port"
IsSocketConnect(k) == k.op = "connect" /\ k.ep.kind = "socket"
IsEphemeral(k) == k.op \in {"create", "remove"}
IsCreate(k) == k.op = "create"
IsRemove(k) == k.op = "remove"

\* the endpoints of a sequence of calls
Endpoints(ks) == [i \in 1..Len(ks) |-> ks[i].ep]
Occurrences(ks, e) == Cardinality({i \in 1..Len(ks) : ks[i].ep = e})

\* C1: in Automatic mode without TOR_CONTROL_PORT, if every connection attempt
\* failed, the constructor failed with TorErrorAutomatic after exactly one
\* connect to each of 9151, 9153, 9051, in that order, and then one connect to
\* the socket path of the platform.  (The claim as stated; the code breaks it.)
C1_AllCandidatesTriedOnce ==
    (/\ Automatic
     /\ host.env_port = ""
     /\ pc # "init"
     /\ \A i \in 1..Len(calls) : IsConnect(calls[i]) => ~calls[i].ok)
    => /\ pc = "failed"
       /\ err.kind = "TorErrorAutomatic"
       /\ Endpoints(SelectSeq(calls, IsPortConnect))
            = <<PortEp(LOCALHOST, 9151), PortEp(LOCALHOST, 9153), PortEp(LOCALHOST, 9051)>>
       /\ \A i \in 1..Len(calls) : Occurrences(calls, calls[i].ep) = 1
       /\ \A i, j \in 1..Len(calls) :
            (IsPortConnect(calls[i]) /\ IsSocketConnect(calls[j])) => i < j
       /\ host.system # "Windows"
            => Occurrences(calls, SockEp(RunUserSocketPath)) = 1

\* C2: in Automatic mode without TOR_CONTROL_PORT, TorErrorAutomatic is raised
\* only when no candidate of the ordered list accepts both the connection and
\* the authentication.  (The claim as stated; the code breaks it.)
C2_AcceptingCandidateIsUsed ==
    (Automatic /\ host.env_port = "" /\ err.kind = "TorErrorAutomatic")
    => ~ \E e \in {PortEp(LOCALHOST, 9151), PortEp(LOCALHOST, 9153),
                   PortEp(LOCALHOST, 9051), SockEp(DarwinSocketPath),
                   SockEp(RunUserSocketPath)} :
           e \in reachable /\ e \in authable

\* C3: a Manual configuration whose endpoint cannot be connected fails with
\* TorErrorSocketPort (control_port) or TorErrorSocketFile (socket_file) carrying
\* the attempted endpoint; no Tor process and no service id is recorded, and the
\* failed connect is the only call issued on the control channel.
C3_ManualUnreachable ==
    (Manual /\ pc # "init" /\ ManualTarget(settings) \notin reachable)
    => /\ pc = "failed"
       /\ settings.connection_type = "control_port"
            => err = [kind |-> "TorErrorSocketPort",
                      ep |-> PortEp(settings.control_port_address,
                                    settings.control_port_port)]
       /\ settings.connection_type = "socket_file"
            => err = [kind |-> "TorErrorSocketFile",
                      ep |-> SockEp(settings.socket_file_path)]
       /\ tor_proc = None
       /\ signals = <<>>
       /\ service_id = None
       /\ live = {}
       /\ n_created = 0
       /\ n_polls = 0
       /\ Len(calls) = 1
       /\ IsConnect(calls[1]) /\ ~calls[1].ok /\ calls[1].ep = err.ep

C3_Witness ==
    /\ settings.connection_type = "socket_file"
    /\ pc = "failed"
    /\ err.kind = "TorErrorSocketFile"
    /\ err.ep.path = "/var/run/tor/control"
    /\ reachable = {}

\* C4: construction with an unrecognized connection type, or with a manual
\* connection type (whose endpoint accepts the connection) and an unrecognized
\* auth type, fails with TorErrorInvalidSetting.  (The claim as stated; the code
\* breaks it.)
C4_InvalidSettingRaised ==
    (/\ pc # "init"
     /\ \/ settings.connection_type
             \notin {"bundled", "automatic", "control_port", "socket_file"}
        \/ /\ Manual
           /\ ManualTarget(settings) \in reachable
           /\ settings.auth_type \notin {"no_auth", "password"})
    => /\ pc = "failed"
       /\ err.kind = "TorErrorInvalidSetting"

\* C5: in Bundled mode the bootstrap monitor leaves the loop at the first poll
\* whose summary is Done: it is never back at the head of the loop (where the
\* next poll is issued) with a Done summary; unless the progress sink itself
\* raised, it goes on to the version query without an error and without a signal
\* to the Tor process; and the sink has been called once per poll, last with the
\* state of the last poll.
C5_DoneEndsBootstrap ==
    Bundled =>
      /\ pc = "bootstrap" => summary # "Done"
      /\ (summary = "Done" /\ err.kind # "SinkError")
           => /\ pc = "connected"
              /\ err = NoError
              /\ signals = <<>>
              /\ tor_proc = "proc"
      /\ (bundled_tor_func /\ pc \in {"bootstrap", "connected"})
           => /\ n_sunk = n_polls
              /\ n_polls > 0 => status_string = progress \o "% - " \o summary
      /\ ~bundled_tor_func => n_sunk = 0

C5_Witness ==
    /\ Bundled
    /\ pc = "connected"
    /\ bundled_tor_func
    /\ summary = "Done"
    /\ status_string = "100% - Done"
    /\ n_polls = 3
    /\ n_sunk = 3

\* C6: in Bundled mode the bootstrap loop is bounded: it is always left, after at
\* most 45 s / 200 ms polls; when it is left without a Done summary and without
\* an exception of a poll or of the sink, BundledTorTimeout is raised and the Tor
\* process has been sent exactly one terminate request.
C6_TimeoutEndsBootstrap ==
    /\ (pc = "bootstrap") ~> (pc # "bootstrap")
    /\ [](n_polls * SleepTicks <= TimeoutTicks)
    /\ []((/\ pc \notin {"init", "spawned", "bootstrap"}
           /\ n_polls > 0
           /\ summary # "Done"
           /\ err.kind \notin {"ControllerError", "IndexError", "SinkError"})
          => /\ pc = "failed"
             /\ err.kind = "BundledTorTimeout"
             /\ signals = <<"terminate">>)

C6_Witness ==
    /\ Bundled
    /\ pc = "failed"
    /\ err.kind = "BundledTorTimeout"
    /\ signals = <<"terminate">>
    /\ summary = "Starting"
    /\ n_polls * SleepTicks = TimeoutTicks

EphemeralCalls == SelectSeq(calls, IsEphemeral)
Constructed == pc = "ready" /\ op.name = "__init__"

\* C8 as stated: a channel on which every ephemeral-service call fails yields
\* ephemeralSupported = false.
C8_ErroringChannelNoEphemeral ==
    (/\ Constructed
     /\ EphemeralCalls # <<>>
     /\ \A i \in 1..Len(EphemeralCalls) : ~EphemeralCalls[i].ok)
    => ~supports_ephemeral

\* C8 as amended: ephemeralSupported is decided by the controller object and the
\* version alone: it is true exactly when the object has
\* list_ephemeral_hidden_services and the version string is not below '0.2.7.1'
\* in string order; a channel on which every ephemeral-service call fails yields
\* stealthSupported = false.
C8_EphemeralByVersion ==
    pc = "ready" =>
      /\ supports_ephemeral
           <=> /\ has_list_ephemeral
               /\ tor_version \in {<<48, 46, 50, 46, 55, 46, 49>>,
                                   <<48, 46, 51, 46, 48, 46, 54>>}
      /\ (/\ op.name = "__init__"
          /\ \A i \in 1..Len(EphemeralCalls) : ~EphemeralCalls[i].ok)
           => ~supports_stealth

C8_Witness ==
    /\ Constructed
    /\ EphemeralCalls # <<>>
    /\ \A i \in 1..Len(EphemeralCalls) : ~EphemeralCalls[i].ok
    /\ supports_ephemeral
    /\ ~supports_stealth
    /\ tor_version = <<48, 46, 50, 46, 55, 46, 49>>

\* C9: when the create call of the stealth probe succeeds, exactly one remove is
\* issued for its service id, the service is not live when the constructor
\* returns and stealthSupported is true; when it fails, stealthSupported is false
\* and no remove is issued.  (The claim as stated; the code breaks it.)
C9_ProbeCleansUp ==
    Constructed =>
      LET creates == SelectSeq(calls, IsCreate)
          removes == SelectSeq(calls, IsRemove)
      IN /\ Len(creates) = 1
         /\ IF creates[1].ok
            THEN /\ Len(removes) = 1
                 /\ removes[1].sid = creates[1].sid
                 /\ creates[1].sid \notin live
                 /\ supports_stealth
            ELSE /\ removes = <<>>
                 /\ ~supports_stealth

\* C10: start(p) on a manager with ephemeralSupported and without stealth issues
\* exactly one create call, with port map {80: p}, publication awaited and no
\* basic auth; when the call succeeds, start returns the reported service id
\* followed by '.onion', records the service id and leaves the auth string None.
C10_StartCreatesService ==
    (pc = "ready" /\ op.name = "start" /\ supports_ephemeral /\ ~stealth)
    => /\ Len(calls) = 1
       /\ calls[1].op = "create"
       /\ calls[1].port_map = <<80, op.port>>
       /\ calls[1].await_publication
       /\ calls[1].basic_auth = None
       /\ calls[1].ep = c
       /\ calls[1].ok
            => /\ err = NoError
               /\ result = calls[1].sid \o ".onion"
               /\ service_id = calls[1].sid
               /\ service_id \in live
               /\ auth_string = None
       /\ ~calls[1].ok => (result = None /\ err # NoError)

C10_Witness ==
    /\ pc = "ready"
    /\ op = Op("start", 8081)
    /\ ~stealth
    /\ supports_ephemeral
    /\ calls[1].ok
    /\ result = "bbbb.onion"
    /\ service_id = "bbbb"

\* C11: a start(port) called when supports_ephemeral is false, or when stealth
\* was requested and supports_stealth is false, fails with TorTooOld, issues no
\* create call, and leaves the recorded service id and the services of the
\* channel as they were.
C11_TooOldStart ==
    [][(op'.name = "start"
        /\ (~supports_ephemeral \/ (stealth /\ ~supports_stealth)))
       => /\ err'.kind = "TorTooOld"
          /\ \A i \in 1..Len(calls') : ~IsCreate(calls'[i])
          /\ service_id' = service_id
          /\ live' = live
          /\ n_created' = n_created]_vars

C11_Witness ==
    /\ op.name = "start"
    /\ err.kind = "TorTooOld"
    /\ stealth
    /\ supports_ephemeral
    /\ ~supports_stealth
    /\ calls = <<>>

\* C12: after a cleanup() that returned the manager holds no service id and no
\* process handle, and a cleanup() that follows it at once, or a cleanup() of a
\* constructed manager without process on which start was never called, issues
\* no call on the channel, sends no signal and raises nothing.
C12_CleanupIdempotent ==
    /\ []((op.name = "cleanup" /\ err = NoError)
            => (service_id = None /\ tor_proc = None))
    /\ [][(op'.name = "cleanup"
           /\ \/ op.name = "cleanup" /\ err = NoError
              \/ Constructed /\ tor_proc = None)
          => /\ calls' = <<>>
             /\ signals' = signals
             /\ live' = live
             /\ err' = NoError
             /\ service_id' = None
             /\ tor_proc' = None]_vars

C12_Witness ==
    /\ op.name = "cleanup"
    /\ err = NoError
    /\ calls = <<>>
    /\ started # {}
    /\ service_id = None
    /\ signals = <<"terminate", "kill">>
    /\ tor_proc = None

\* C13: cleanup() returns normally with the service id and the process handle
\* cleared, whichever of remove, terminate and kill failed.
C13_CleanupNeverRaises ==
    op.name = "cleanup"
    => /\ err = NoError
       /\ service_id = None
       /\ tor_proc = None

\* C14: in a Bundled session on Windows, the platform without unix sockets, the
\* control port and the SOCKS port of the two successive allocations differ.
C14_DistinctPorts ==
    (Bundled /\ host.system = "Windows" /\ tor_proc # None)
    => tor_control_port # tor_socks_port

\* C15 as stated: get_tor_socks_port returns the address 127.0.0.1 in every
\* connection type, with the port allocated at spawn (Bundled), 9150
\* (Automatic) or the port of the settings (Manual).
C15_LoopbackInEveryMode ==
    op.name = "get_tor_socks_port"
    => /\ socks.addr = "127.0.0.1"
       /\ socks.port = (IF Bundled THEN tor_socks_port
                        ELSE IF Automatic THEN 9150
                        ELSE settings.socks_port)

\* C15: get_tor_socks_port returns 127.0.0.1 with the port allocated at spawn
\* for Bundled, 127.0.0.1 with 9150 for Automatic, and the socks_address and
\* socks_port of the settings for Manual.
C15_SocksEndpoint ==
    op.name = "get_tor_socks_port"
    => /\ Bundled => socks = [addr |-> "127.0.0.1", port |-> tor_socks_port]
       /\ Automatic => socks = [addr |-> "127.0.0.1", port |-> 9150]
       /\ Manual => socks = [addr |-> settings.socks_address,
                             port |-> settings.socks_port]
       /\ Bundled => tor_socks_port \in AvailablePorts

C15_Witness ==
    /\ op.name = "get_tor_socks_port"
    /\ Manual
    /\ settings.socks_address # "127.0.0.1"
    /\ socks.addr = settings.socks_address
    /\ socks.port = settings.socks_port

\* C16: a cleanup() that terminates the recorded Tor process sends terminate
\* first and sends kill if and only if poll() after the grace sleep found the
\* process running; a process that has exited, with status 0 too, gets no kill.
C16_KillIffRunning ==
    (op.name = "cleanup" /\ err = NoError /\ signals # <<>>)
    => /\ signals[1] = "terminate"
       /\ (\E i \in 1..Len(signals) : signals[i] = "kill") <=> returncode = "None"

\* C17: the manager records one service id at most, that of a live service
\* start created; a successful start called while an id is recorded records the
\* id of the new service in its place and issues no remove call, so the
\* previous service stays live.
C17_StartReplacesRecord ==
    /\ [](service_id # None => (service_id \in started /\ service_id \in live))
    /\ [][(op'.name = "start" /\ err' = NoError /\ service_id # None)
          => /\ Len(calls') = 1
             /\ IsCreate(calls'[1])
             /\ service_id' = calls'[1].sid
             /\ service_id' # service_id
             /\ service_id' \notin live
             /\ live' = live \cup {service_id'}
             /\ service_id \in live']_vars

C17_Witness ==
    /\ op.name = "start"
    /\ err = NoError
    /\ Cardinality(started) = 2
    /\ started \subseteq live
    /\ service_id \in started
    /\ unremoved = {}

\* C18: when the constructor has returned, the manager holds a controller and
\* it is the only control connection the constructor opened.
C18_OneLiveConnection ==
    Constructed => (c # NoEp /\ conns = {c})

\* C19: a Bundled construction that fails after the Tor process was spawned has
\* sent the process a terminate request.
C19_FailedConstructionTerminates ==
    (Bundled /\ pc = "failed" /\ tor_proc # None)
    => \E i \in 1..Len(signals) : signals[i] = "terminate"

====
